---- MODULE Spec2Model ----
(***************************************************************************)
(* Model of claude-pause-mcp: the decision dialog in its two front ends    *)
(* (dialog.py, a Tk window; dialog-web.py, a loopback HTTP listener plus   *)
(* browser) and the history store (history.py).                            *)
(*                                                                         *)
(* Text is modelled as a sequence of one-character strings, so that        *)
(* concatenation, slicing and stripping are computed as Python computes    *)
(* them.  A process invocation is launched, runs its front end and closes; *)
(* the two files on disk survive from one invocation to the next.          *)
(***************************************************************************)
EXTENDS Integers, Sequences, FiniteSets, TLC

VARIABLES
    prefFile,         \* .thinking_mode_preference on disk
    historyFile,      \* .dialog_history.json on disk
    clock,            \* datetime.now(): ticks at every timestamp taken
    appended,         \* every record add_entry has built, newest first
    runs,             \* number of invocations launched so far
    variant,          \* "none" | "window" (dialog.py) | "web" (dialog-web.py)
    argv,             \* sys.argv of the running invocation
    phase,            \* "idle" | "open" | "closed" (process exited)
    closedBy,         \* how the invocation ended
    stdout,           \* lines printed to standard output by this invocation
    exit_status,      \* -1 while running, else the process exit status
    windowCreated,    \* tk.Tk() has been called
    history,          \* DialogHistory.history (in memory)
    historyAtOpen,    \* the log as loaded when the dialog was opened
    thinking_mode,    \* dialog.py StringVar / dialog-web.py do_GET local
    result,           \* dialog.py StringVar bound to the response entry
    insertPos,        \* insertion cursor of the response entry
    selLast,          \* the entry's selection is [0, selLast); 0 = none
    nKeys,            \* characters typed so far, over all invocations
    listening,        \* the TCPServer socket is bound
    browserOpened,    \* webbrowser.open() has been called
    workerPc,         \* position of the serve_forever thread
    shutdown_request, \* BaseServer.__shutdown_request
    is_shut_down,     \* BaseServer.__is_shut_down (threading.Event)
    g_result,         \* dialog-web.py module global `result`
    h_result,         \* dialog-web.py do_GET local `result`
    lastReq,          \* the request the handler handled last
    handler_error,    \* exception that ended the last do_GET, or "none"
    pageServed        \* the page body has been written to the socket

vars == <<prefFile, historyFile, clock, appended, runs, variant, argv, phase,
          closedBy, stdout, exit_status, windowCreated, history, historyAtOpen,
          thinking_mode, result, insertPos, selLast, nKeys, listening,
          browserOpened, workerPc, shutdown_request, is_shut_down, g_result,
          h_result, lastReq, handler_error, pageServed>>

diskVars == <<prefFile, historyFile, clock, appended>>
windowVars == <<windowCreated, history, historyAtOpen, result, insertPos,
                selLast, nKeys>>
webVars == <<listening, browserOpened, workerPc, shutdown_request,
             is_shut_down, g_result, h_result, lastReq, handler_error,
             pageServed>>

----------------------------------------------------------------------------
(* Bounds of the model.                                                    *)

\* invocations in the full specification
MaxRuns == 2
\* invocations in the history specification (more than the cap)
MaxAppends == 12
\* characters typed into the response entry, over all invocations
MaxKeys == 1

(* Program constants.                                                      *)
max_items == 10
ContextLimit == 100
RecentCount == 5
MaxShortcut == 9

----------------------------------------------------------------------------
(* Text.                                                                   *)

Min(a, b) == IF a < b THEN a ELSE b

Take(s, n) == SubSeq(s, 1, Min(n, Len(s)))
Drop(s, n) == SubSeq(s, n + 1, Len(s))

quick == <<"q", "u", "i", "c", "k">>
normal == <<"n", "o", "r", "m", "a", "l">>
deep == <<"d", "e", "e", "p">>
ultra == <<"u", "l", "t", "r", "a">>
bogus == <<"b", "o", "g", "u", "s">>

\* the list tested by `saved_mode in [...]`
ValidModes == {normal, deep, ultra, quick}

CANCELLED == <<"C", "A", "N", "C", "E", "L", "L", "E", "D">>
ERROR_NO_INPUT == <<"E", "R", "R", "O", "R", ":", " ", "N", "o", " ", "i",
                    "n", "p", "u", "t", " ", "p", "r", "o", "v", "i", "d",
                    "e", "d">>
proceed == <<"p", "r", "o", "c", "e", "e", "d">>
fix_the_bug == <<"f", "i", "x", " ", "t", "h", "e", " ", "b", "u", "g">>

Whitespace == {" ", "\t", "\n", "\r"}

\* str.strip(): drop leading and trailing whitespace
RECURSIVE LStrip(_)
LStrip(s) == IF s # <<>> /\ Head(s) \in Whitespace THEN LStrip(Tail(s)) ELSE s

RECURSIVE RStrip(_)
RStrip(s) ==
    IF s # <<>> /\ s[Len(s)] \in Whitespace
    THEN RStrip(SubSeq(s, 1, Len(s) - 1))
    ELSE s

Strip(s) == RStrip(LStrip(s))

\* the line with a two-bar separator
Encode_mut(response, mode) == response \o <<"|", "|">> \o mode

\* f"{response}|||{mode}"
Encode(response, mode) == response \o <<"|", "|", "|">> \o mode

\* Python None and str values of the module global `result`
None == [isNone |-> TRUE, text |-> <<>>]
Str(s) == [isNone |-> FALSE, text |-> s]
\* truthiness tested by `if result:`
Truthy(v) == ~v.isNone /\ v.text # <<>>

----------------------------------------------------------------------------
(* The preference file.                                                    *)

MissingFile == [exists |-> FALSE, decodable |-> TRUE, text |-> <<>>]
\* a file whose bytes are not text: f.read() raises UnicodeDecodeError
UndecodableFile == [exists |-> TRUE, decodable |-> FALSE, text |-> <<>>]
TextFile(s) == [exists |-> TRUE, decodable |-> TRUE, text |-> s]

\* the load without the membership test on the stored value
LoadPreference_mut(file) ==
    IF ~file.exists THEN normal
    ELSE IF ~file.decodable THEN normal
    ELSE Strip(file.text)

\* dialog.py: default_mode after the try block
LoadPreference(file) ==
    IF ~file.exists THEN normal
    ELSE IF ~file.decodable THEN normal
    ELSE IF Strip(file.text) \in ValidModes THEN Strip(file.text)
    ELSE normal

\* dialog-web.py: thinking_mode after the try block of GET /
WebLoadPreference(file) ==
    IF ~file.exists THEN normal
    ELSE IF ~file.decodable THEN normal
    ELSE IF Strip(file.text) \in ValidModes THEN Strip(file.text)
    ELSE normal

\* open(pref_file, 'w').write(mode)
WritePreference(mode) == TextFile(mode)

----------------------------------------------------------------------------
(* The history store (history.py).                                         *)

MissingHistory == [exists |-> FALSE, valid |-> TRUE, entries |-> <<>>]
\* a file json.load() cannot parse
CorruptHistory == [exists |-> TRUE, valid |-> FALSE, entries |-> <<>>]

load_history(file) ==
    IF file.exists /\ file.valid THEN file.entries ELSE <<>>

\* json.dump(self.history[:self.max_items], f)
save_history(h) ==
    [exists |-> TRUE, valid |-> TRUE, entries |-> Take(h, max_items)]

\* the marker added from 100 characters on
TruncateContext_mut(context) ==
    IF Len(context) >= ContextLimit
    THEN Take(context, ContextLimit) \o <<".", ".", ".">>
    ELSE context

TruncateContext(context) ==
    IF Len(context) > ContextLimit
    THEN Take(context, ContextLimit) \o <<".", ".", ".">>
    ELSE context

NewEntry(now, response, context, mode) ==
    [timestamp |-> now, response |-> response,
     context |-> TruncateContext(context), thinking_mode |-> mode]

\* the new record put at the end of the list instead of the front
add_entry_mut(h, now, response, context, mode) ==
    Take(h \o <<NewEntry(now, response, context, mode)>>, max_items)

\* the in-memory list after add_entry
add_entry(h, now, response, context, mode) ==
    Take(<<NewEntry(now, response, context, mode)>> \o h, max_items)

get_recent(h, count) == Take(h, count)

----------------------------------------------------------------------------
(* Inputs.                                                                 *)

Request(c, o, d) ==
    [decision_context |-> c, options |-> o, default_action |-> d]

NoData == Request(<<>>, <<>>, <<>>)

ReqOptions == Request(<<"c">>, << <<"A">>, <<"B">> >>, <<>>)
ReqDefault == Request(<<"c">>, <<>>, proceed)
ReqSentinel == Request(<<>>, <<>>, CANCELLED)
ReqFix == Request(<<"c">>, <<>>, fix_the_bug)

Requests == {ReqOptions, ReqDefault, ReqSentinel, ReqFix}

\* sys.argv: no argument, an argument that is not JSON, a DecisionRequest
NoArg == [present |-> FALSE, wellformed |-> FALSE, data |-> NoData]
BadJson == [present |-> TRUE, wellformed |-> FALSE, data |-> NoData]
JsonArg(r) == [present |-> TRUE, wellformed |-> TRUE, data |-> r]

Argvs == {NoArg, BadJson} \cup {JsonArg(r) : r \in Requests}

\* keys typed into the response entry: a letter that is also a mode shortcut
\* and a digit (an option shortcut when the request has options)
Keys == {"d", "1"}

InitPrefFiles == {MissingFile, UndecodableFile, TextFile(bogus),
                  TextFile(deep \o <<"\n">>)}
InitHistoryFiles == {MissingHistory, CorruptHistory}

\* GET requests the browser (or any local client) can send, already decoded
GetRoot == [path |-> "/", response |-> <<>>, hasMode |-> FALSE, mode |-> <<>>]
GetCancel ==
    [path |-> "/cancel", response |-> <<>>, hasMode |-> FALSE, mode |-> <<>>]
GetOther ==
    [path |-> "/favicon.ico", response |-> <<>>, hasMode |-> FALSE,
     mode |-> <<>>]
GetSubmit(r, m) ==
    [path |-> "/submit", response |-> r, hasMode |-> TRUE, mode |-> m]
GetSubmitNoMode(r) ==
    [path |-> "/submit", response |-> r, hasMode |-> FALSE, mode |-> <<>>]

WebResponses == {<<>>, <<"x">>, fix_the_bug}
WebModes == {deep, bogus}

WebRequests ==
    {GetRoot, GetCancel, GetOther}
        \cup {GetSubmit(r, m) : r \in WebResponses, m \in WebModes}
        \cup {GetSubmitNoMode(r) : r \in WebResponses}

----------------------------------------------------------------------------
(* Initial state: nothing launched yet; the files are as a previous        *)
(* installation, an editor or nothing at all left them.                    *)

Init ==
    /\ prefFile \in InitPrefFiles
    /\ historyFile \in InitHistoryFiles
    /\ clock = 0
    /\ appended = <<>>
    /\ runs = 0
    /\ variant = "none"
    /\ argv = NoArg
    /\ phase = "idle"
    /\ closedBy = "none"
    /\ stdout = <<>>
    /\ exit_status = -1
    /\ windowCreated = FALSE
    /\ history = <<>>
    /\ historyAtOpen = historyFile
    /\ thinking_mode = normal
    /\ result = <<>>
    /\ insertPos = 0
    /\ selLast = 0
    /\ nKeys = 0
    /\ listening = FALSE
    /\ browserOpened = FALSE
    /\ workerPc = "none"
    /\ shutdown_request = FALSE
    /\ is_shut_down = FALSE
    /\ g_result = None
    /\ h_result = None
    /\ lastReq = GetOther
    /\ handler_error = "none"
    /\ pageServed = FALSE

\* a new process: no window, no listener, module globals at their initial value
FreshWeb ==
    /\ listening' = FALSE
    /\ browserOpened' = FALSE
    /\ workerPc' = "none"
    /\ shutdown_request' = FALSE
    /\ is_shut_down' = FALSE
    /\ g_result' = None
    /\ h_result' = None
    /\ lastReq' = GetOther
    /\ handler_error' = "none"
    /\ pageServed' = FALSE

FreshWindow ==
    /\ windowCreated' = FALSE
    /\ history' = <<>>
    /\ result' = <<>>
    /\ insertPos' = 0
    /\ selLast' = 0
    /\ UNCHANGED nKeys

----------------------------------------------------------------------------
(* dialog.py, the local-window variant.                                    *)

\* python3 dialog.py [arg]: __main__ and show_dialog up to root.mainloop()
LaunchWindow(a, maxRuns) ==
    /\ phase \in {"idle", "closed"}
    /\ runs < maxRuns
    /\ runs' = runs + 1
    /\ variant' = "window"
    /\ argv' = a
    /\ stdout' = IF a.present THEN <<>> ELSE <<ERROR_NO_INPUT>>
    /\ historyAtOpen' = historyFile
    /\ FreshWeb
    /\ UNCHANGED <<historyFile, clock, appended>>
    /\ IF ~a.present
       THEN /\ phase' = "closed"
            /\ closedBy' = "usage"
            /\ exit_status' = 1
            /\ thinking_mode' = normal
            /\ FreshWindow
            /\ UNCHANGED prefFile
       ELSE IF ~a.wellformed
       THEN \* json.loads raises before DialogHistory() and tk.Tk()
            /\ phase' = "closed"
            /\ closedBy' = "parse_error"
            /\ exit_status' = 1
            /\ thinking_mode' = normal
            /\ FreshWindow
            /\ UNCHANGED prefFile
       ELSE /\ phase' = "open"
            /\ closedBy' = "none"
            /\ exit_status' = -1
            /\ history' = load_history(historyFile)
            /\ windowCreated' = TRUE
            /\ thinking_mode' = LoadPreference(prefFile)
            \* update_mode_indicator() "Set initial state" writes the file
            /\ prefFile' = WritePreference(LoadPreference(prefFile))
            /\ result' = a.data.default_action
            /\ insertPos' = 0
            \* entry.select_range(0, tk.END)
            /\ selLast' = Len(a.data.default_action)
            /\ UNCHANGED nKeys

WindowOpen == variant = "window" /\ phase = "open"

\* the value inserted into the text instead of replacing it
SetResult_mut(v) ==
    /\ result' = result \o v
    /\ insertPos' = insertPos
    /\ selLast' = selLast

\* StringVar.set(v) on the entry's textvariable: cursor and selection clamp
SetResult(v) ==
    /\ result' = v
    /\ insertPos' = Min(insertPos, Len(v))
    /\ selLast' = Min(selLast, Len(v))

KeyDigit(k) ==
    CASE k = "1" -> 1 [] k = "2" -> 2 [] k = "3" -> 3 [] k = "4" -> 4
      [] k = "5" -> 5 [] k = "6" -> 6 [] k = "7" -> 7 [] k = "8" -> 8
      [] k = "9" -> 9 [] OTHER -> 0

\* root.bind('q' ... 'U'): the mode a letter key selects, <<>> if none
KeyMode(k) ==
    CASE k \in {"q", "Q"} -> quick
      [] k \in {"n", "N"} -> normal
      [] k \in {"d", "D"} -> deep
      [] k \in {"u", "U"} -> ultra
      [] OTHER -> <<>>

\* the entry text after the Entry class binding has inserted character k
EntryInsert(text, pos, sel, k) ==
    LET del == sel > 0 /\ pos <= sel
        kept == IF del THEN Drop(text, sel) ELSE text
        at == IF del THEN 0 ELSE pos
    IN  [text |-> Take(kept, at) \o <<k>> \o Drop(kept, at),
         pos |-> at + 1,
         sel |-> IF del THEN 0 ELSE sel]

\* a character key pressed while the response entry has the focus: the Entry
\* class binding inserts it, then the bindings on root (the toplevel is in the
\* entry's bindtags) run
KeyPress(k) ==
    /\ WindowOpen
    /\ nKeys < MaxKeys
    /\ nKeys' = nKeys + 1
    /\ LET e == EntryInsert(result, insertPos, selLast, k)
           opts == argv.data.options
           i == KeyDigit(k)
       IN  IF i >= 1 /\ i <= Len(opts) /\ i <= MaxShortcut
           THEN /\ result' = opts[i]
                /\ insertPos' = Min(e.pos, Len(opts[i]))
                /\ selLast' = Min(e.sel, Len(opts[i]))
           ELSE /\ result' = e.text
                /\ insertPos' = e.pos
                /\ selLast' = e.sel
    /\ IF KeyMode(k) # <<>>
       THEN /\ thinking_mode' = KeyMode(k)
            /\ prefFile' = WritePreference(KeyMode(k))
       ELSE UNCHANGED <<thinking_mode, prefFile>>
    /\ UNCHANGED <<historyFile, clock, appended, runs, variant, argv, phase,
                   closedBy, stdout, exit_status, windowCreated, history,
                   historyAtOpen>>
    /\ UNCHANGED webVars

\* a click on one of the four mode radio buttons; the trace on the variable
\* runs update_mode_indicator, which writes the preference file
SelectMode(m) ==
    /\ WindowOpen
    /\ thinking_mode' = m
    /\ prefFile' = WritePreference(m)
    /\ UNCHANGED <<historyFile, clock, appended, runs, variant, argv, phase,
                   closedBy, stdout, exit_status>>
    /\ UNCHANGED windowVars
    /\ UNCHANGED webVars

\* a click on the radio button of option i
PickOption(i) ==
    /\ WindowOpen
    /\ i \in 1..Len(argv.data.options)
    /\ SetResult(argv.data.options[i])
    /\ UNCHANGED diskVars
    /\ UNCHANGED <<runs, variant, argv, phase, closedBy, stdout, exit_status,
                   windowCreated, history, historyAtOpen, thinking_mode,
                   nKeys>>
    /\ UNCHANGED webVars

\* a pick in the "Recent" menu built from history.get_recent(5)
PickHistory(j) ==
    /\ WindowOpen
    /\ j \in 1..Len(get_recent(history, RecentCount))
    /\ SetResult(get_recent(history, RecentCount)[j].response)
    /\ UNCHANGED diskVars
    /\ UNCHANGED <<runs, variant, argv, phase, closedBy, stdout, exit_status,
                   windowCreated, history, historyAtOpen, thinking_mode,
                   nKeys>>
    /\ UNCHANGED webVars

\* the condition under which submit() records the response
Recordable(response) == response # <<>> /\ response # CANCELLED

\* submit(): Submit button or <Return>; root.quit() ends mainloop, then
\* root.destroy() and the process exits
Submit ==
    /\ WindowOpen
    /\ prefFile' = WritePreference(thinking_mode)
    /\ IF Recordable(result)
       THEN /\ clock' = clock + 1
            /\ history' = add_entry(history, clock + 1, result,
                                    argv.data.decision_context, thinking_mode)
            /\ historyFile' = save_history(history')
            /\ appended' = <<NewEntry(clock + 1, result,
                                      argv.data.decision_context,
                                      thinking_mode)>> \o appended
       ELSE UNCHANGED <<clock, history, historyFile, appended>>
    /\ stdout' = Append(stdout, Encode(result, thinking_mode))
    /\ phase' = "closed"
    /\ closedBy' = "submit"
    /\ exit_status' = 0
    /\ UNCHANGED <<runs, variant, argv, windowCreated, historyAtOpen,
                   thinking_mode, result, insertPos, selLast, nKeys>>
    /\ UNCHANGED webVars

\* cancel() without root.quit(): the window stays open
Cancel_mut ==
    /\ WindowOpen
    /\ stdout' = Append(stdout, CANCELLED)
    /\ phase' = "open"
    /\ closedBy' = "cancel"
    /\ exit_status' = -1
    /\ UNCHANGED diskVars
    /\ UNCHANGED <<runs, variant, argv, thinking_mode>>
    /\ UNCHANGED windowVars
    /\ UNCHANGED webVars

\* cancel(): Cancel button or <Escape>
Cancel ==
    /\ WindowOpen
    /\ stdout' = Append(stdout, CANCELLED)
    /\ phase' = "closed"
    /\ closedBy' = "cancel"
    /\ exit_status' = 0
    /\ UNCHANGED diskVars
    /\ UNCHANGED <<runs, variant, argv, thinking_mode>>
    /\ UNCHANGED windowVars
    /\ UNCHANGED webVars

\* the window manager's close button: no WM_DELETE_WINDOW handler is set, so
\* Tk destroys the window, mainloop returns and root.destroy() raises TclError
CloseWindow ==
    /\ WindowOpen
    /\ phase' = "closed"
    /\ closedBy' = "wm_close"
    /\ exit_status' = 1
    /\ UNCHANGED diskVars
    /\ UNCHANGED <<runs, variant, argv, stdout, thinking_mode>>
    /\ UNCHANGED windowVars
    /\ UNCHANGED webVars

----------------------------------------------------------------------------
(* dialog-web.py, the local-HTTP variant.  The main flow starts the        *)
(* listener and joins the serve_forever thread; the thread runs do_GET for *)
(* each request.  The handler assigns `result` without a global            *)
(* declaration, so it binds a local of do_GET; server.shutdown() sets the  *)
(* shutdown request and waits for the event serve_forever sets on exit.    *)

\* __main__ without argument, else show_web_dialog up to server_thread.join()
LaunchWeb(a, maxRuns) ==
    /\ phase \in {"idle", "closed"}
    /\ runs < maxRuns
    /\ runs' = runs + 1
    /\ variant' = "web"
    /\ argv' = a
    /\ historyAtOpen' = historyFile
    /\ thinking_mode' = normal
    /\ FreshWindow
    /\ UNCHANGED diskVars
    /\ g_result' = None
    /\ h_result' = None
    /\ lastReq' = GetOther
    /\ handler_error' = "none"
    /\ pageServed' = FALSE
    /\ shutdown_request' = FALSE
    /\ is_shut_down' = FALSE
    /\ IF ~a.present
       THEN /\ stdout' = <<ERROR_NO_INPUT>>
            /\ phase' = "closed"
            /\ closedBy' = "usage"
            /\ exit_status' = 1
            /\ listening' = FALSE
            /\ browserOpened' = FALSE
            /\ workerPc' = "none"
       ELSE \* json_input is not parsed here
            /\ stdout' = <<>>
            /\ phase' = "open"
            /\ closedBy' = "none"
            /\ exit_status' = -1
            /\ listening' = TRUE
            /\ workerPc' = "select"
            /\ browserOpened' = TRUE

\* server_thread.join() returns; return result; if result: print(result)
JoinReturns ==
    /\ variant = "web"
    /\ phase = "open"
    /\ workerPc = "finished"
    /\ stdout' = IF Truthy(g_result) THEN Append(stdout, g_result.text)
                 ELSE stdout
    /\ phase' = "closed"
    /\ closedBy' = "returned"
    /\ exit_status' = 0
    /\ listening' = FALSE
    /\ UNCHANGED diskVars
    /\ UNCHANGED <<runs, variant, argv, thinking_mode, browserOpened,
                   workerPc, shutdown_request, is_shut_down, g_result,
                   h_result, lastReq, handler_error, pageServed>>
    /\ UNCHANGED windowVars

\* the next step of the main flow of dialog-web.py
WebMain(args, maxRuns) ==
    IF variant = "web" /\ phase = "open"
    THEN JoinReturns
    ELSE \E a \in args : LaunchWeb(a, maxRuns)

\* query.get('mode', ['normal'])[0]; parse_qs drops blank values
QueryMode(req) ==
    IF req.hasMode /\ req.mode # <<>> THEN req.mode ELSE normal

\* DialogHandler.do_GET for one request, up to its return, its exception or
\* the wait inside server.shutdown()
do_GET(req) ==
    /\ lastReq' = req
    /\ UNCHANGED <<historyFile, clock, appended, g_result, is_shut_down,
                   pageServed>>
    /\ IF req.path = "/"
       THEN /\ h_result' = None
            /\ IF ~argv.wellformed
               THEN /\ handler_error' = "JSONDecodeError"
                    /\ UNCHANGED thinking_mode
               ELSE \* the f-string reads options_html and default_html,
                    \* locals that are assigned only after it
                    /\ thinking_mode' = WebLoadPreference(prefFile)
                    /\ handler_error' = "UnboundLocalError"
            /\ UNCHANGED <<prefFile, shutdown_request, workerPc>>
       ELSE IF req.path = "/submit"
       THEN /\ h_result' = Str(Encode(req.response, QueryMode(req)))
            /\ prefFile' = WritePreference(QueryMode(req))
            /\ handler_error' = "none"
            /\ shutdown_request' = TRUE
            /\ workerPc' = "shutdown_wait"
            /\ UNCHANGED thinking_mode
       ELSE IF req.path = "/cancel"
       THEN /\ h_result' = Str(CANCELLED)
            /\ handler_error' = "none"
            /\ shutdown_request' = TRUE
            /\ workerPc' = "shutdown_wait"
            /\ UNCHANGED <<prefFile, thinking_mode>>
       ELSE /\ h_result' = None
            /\ handler_error' = "none"
            /\ UNCHANGED <<prefFile, thinking_mode, shutdown_request,
                           workerPc>>

\* the next step of the thread running server.serve_forever()
serve_forever(reqs) ==
    /\ variant = "web"
    /\ phase = "open"
    /\ UNCHANGED <<runs, variant, argv, phase, closedBy, stdout, exit_status,
                   listening, browserOpened>>
    /\ UNCHANGED windowVars
    /\ IF workerPc = "shutdown_wait"
       THEN \* self.__is_shut_down.wait() returns
            /\ is_shut_down
            /\ workerPc' = "select"
            /\ UNCHANGED diskVars
            /\ UNCHANGED <<thinking_mode, shutdown_request, is_shut_down,
                           g_result, h_result, lastReq, handler_error,
                           pageServed>>
       ELSE /\ workerPc = "select"
            /\ IF shutdown_request
               THEN \* the loop ends; finally: self.__is_shut_down.set()
                    /\ is_shut_down' = TRUE
                    /\ workerPc' = "finished"
                    /\ UNCHANGED diskVars
                    /\ UNCHANGED <<thinking_mode, shutdown_request, g_result,
                                   h_result, lastReq, handler_error,
                                   pageServed>>
               ELSE \E req \in reqs : do_GET(req)

----------------------------------------------------------------------------
(* Specifications.                                                         *)

\* both variants, every input
Next ==
    \/ \E a \in Argvs : LaunchWindow(a, MaxRuns)
    \/ \E k \in Keys : KeyPress(k)
    \/ \E m \in ValidModes : SelectMode(m)
    \/ \E i \in 1..2 : PickOption(i)
    \/ \E j \in 1..RecentCount : PickHistory(j)
    \/ Submit
    \/ Cancel
    \/ CloseWindow
    \/ WebMain(Argvs, MaxRuns)
    \/ serve_forever(WebRequests)

Spec == Init /\ [][Next]_vars

\* the history store under more submissions than the cap: the window variant
\* on one request, the mode switched between two values
NextHist ==
    \/ LaunchWindow(JsonArg(ReqFix), MaxAppends)
    \/ \E m \in {normal, deep} : SelectMode(m)
    \/ Submit
    \/ Cancel

SpecHist == Init /\ [][NextHist]_vars

----------------------------------------------------------------------------
(* Steps of the running invocation, and the state in which it has none.    *)

InvocationStep ==
    \/ \E k \in Keys : KeyPress(k)
    \/ \E m \in ValidModes : SelectMode(m)
    \/ \E i \in 1..2 : PickOption(i)
    \/ \E j \in 1..RecentCount : PickHistory(j)
    \/ Submit
    \/ Cancel
    \/ CloseWindow
    \/ JoinReturns
    \/ serve_forever(WebRequests)

\* the process has exited, or no thread of it can ever take a step again
Halted == phase = "closed" \/ (phase = "open" /\ ~ENABLED InvocationStep)

\* the handler has handled GET /submit or GET /cancel
TerminatingHandled ==
    /\ variant = "web"
    /\ phase = "open"
    /\ lastReq.path \in {"/submit", "/cancel"}

----------------------------------------------------------------------------
(* Properties.                                                             *)

\* C1: starting from an empty history, after N appends (each by a new
\* invocation that loads the persisted log) the log on disk is exactly the
\* min(N, cap) most recently appended records, newest first; the log never
\* holds more than cap entries, in memory or on disk, and on overflow the
\* oldest records are the ones dropped.
C1_HistoryCap ==
    LET log == load_history(historyFile)
        n == Len(appended)
    IN  /\ Len(log) = Min(n, max_items)
        /\ log = SubSeq(appended, 1, Min(n, max_items))
        /\ Len(history) <= max_items
        /\ \A i \in 1..Len(log) : \A j \in 1..Len(log) :
               i < j => log[i].timestamp > log[j].timestamp
        /\ closedBy = "submit" => history = log

\* more appends than the cap have been made and the log is full
C1_Witness ==
    /\ Len(appended) > max_items
    /\ Len(load_history(historyFile)) = max_items
    /\ closedBy = "submit"

\* C2: in the window variant a submit with response r and mode m writes
\* exactly one line to standard output, r followed by ||| followed by m;
\* response "fix the bug" with mode deep gives "fix the bug|||deep".
C2_SubmitOutput ==
    (variant = "window" /\ closedBy = "submit") =>
        /\ stdout = <<result \o <<"|", "|", "|">> \o thinking_mode>>
        /\ (result = fix_the_bug /\ thinking_mode = deep) =>
               stdout = << <<"f", "i", "x", " ", "t", "h", "e", " ", "b",
                             "u", "g", "|", "|", "|", "d", "e", "e", "p">> >>
        /\ (result = <<>> /\ thinking_mode = quick) =>
               stdout = << <<"|", "|", "|", "q", "u", "i", "c", "k">> >>

\* "fix the bug" has been submitted with mode deep
C2_Witness ==
    /\ variant = "window"
    /\ closedBy = "submit"
    /\ result = fix_the_bug
    /\ thinking_mode = deep
    /\ Len(stdout) = 1

\* a cancel has been taken: cancel() in the window, GET /cancel on the listener
CancelTaken ==
    \/ variant = "window" /\ closedBy = "cancel"
    \/ TerminatingHandled /\ lastReq.path = "/cancel"

\* C3: once a cancel has been taken and the invocation has come to rest, the
\* history log is the one found when the dialog was opened and standard
\* output is exactly the line CANCELLED.
C3_CancelOutput ==
    (CancelTaken /\ Halted) =>
        /\ historyFile = historyAtOpen
        /\ (variant = "window" => history = load_history(historyAtOpen))
        /\ stdout = <<CANCELLED>>

\* a submit has been taken: submit() in the window, GET /submit on the listener
SubmitTaken ==
    \/ variant = "window" /\ closedBy = "submit"
    \/ TerminatingHandled /\ lastReq.path = "/submit"

SubmittedResponse == IF variant = "window" THEN result ELSE lastReq.response
SubmittedMode ==
    IF variant = "window" THEN thinking_mode
    ELSE IF lastReq.hasMode THEN lastReq.mode ELSE normal

\* C4: in either variant a submit writes the selected mode to the preference
\* file and, exactly when the response is non-empty and is not CANCELLED, puts
\* one record with that response, the context and that mode at the front of
\* the history file; otherwise the history file is left as it was.
C4_SubmitPersists ==
    SubmitTaken =>
        LET before == load_history(historyAtOpen)
            after == load_history(historyFile)
        IN  /\ prefFile = TextFile(SubmittedMode)
            /\ (SubmittedResponse # <<>> /\ SubmittedResponse # CANCELLED) =>
                   /\ after # <<>>
                   /\ after[1].response = SubmittedResponse
                   /\ after[1].thinking_mode = SubmittedMode
                   /\ after[1].context =
                          TruncateContext(argv.data.decision_context)
                   /\ Tail(after) = Take(before, max_items - 1)
            /\ (SubmittedResponse = <<>> \/ SubmittedResponse = CANCELLED) =>
                   historyFile = historyAtOpen

\* t is the mode m with nothing but whitespace before and after it
Padded(t, m) ==
    \E i \in 0..Len(t) :
        /\ i + Len(m) <= Len(t)
        /\ SubSeq(t, i + 1, i + Len(m)) = m
        /\ \A j \in 1..Len(t) :
               (j <= i \/ j > i + Len(m)) => t[j] \in Whitespace

\* a step that loads the preference: the window is opened, or GET / is handled
LoadStep ==
    \/ phase # "open" /\ phase' = "open" /\ variant' = "window"
    \/ /\ variant = "web" /\ phase = "open" /\ workerPc = "select"
       /\ ~shutdown_request /\ argv.wellformed /\ lastReq' = GetRoot

\* C5 as stated: the loaded mode is the stored value when that value is one of
\* the four modes, and normal for every other stored value and for a missing
\* or unreadable file.
C5_LoadAsStated ==
    [][LoadStep =>
        thinking_mode' =
            IF prefFile.exists /\ prefFile.decodable
                  /\ prefFile.text \in ValidModes
            THEN prefFile.text
            ELSE normal]_vars

\* C5, amended: a submit stores the submitted mode; a load returns one of the
\* four modes: the stored value when it is a valid mode (so a saved mode is
\* loaded back), the valid mode a stored value consists of once surrounding
\* whitespace is removed, and normal for a missing file, an unreadable file
\* and every other stored value.
C5_PreferenceLoad ==
    /\ [](closedBy = "submit" => prefFile = TextFile(thinking_mode))
    /\ [][LoadStep =>
            /\ thinking_mode' \in ValidModes
            /\ (prefFile.exists /\ prefFile.decodable
                   /\ prefFile.text \in ValidModes) =>
                   thinking_mode' = prefFile.text
            /\ (~prefFile.exists \/ ~prefFile.decodable) =>
                   thinking_mode' = normal
            /\ \A m \in ValidModes :
                   (prefFile.exists /\ prefFile.decodable
                       /\ Padded(prefFile.text, m)) => thinking_mode' = m
            /\ (prefFile.exists /\ prefFile.decodable
                   /\ \A m \in ValidModes : ~Padded(prefFile.text, m)) =>
                   thinking_mode' = normal]_vars

\* a second invocation has opened with the mode the first one saved (ultra is
\* in no initial preference file)
C5_Witness ==
    /\ runs = 2
    /\ variant = "window"
    /\ phase = "open"
    /\ thinking_mode = ultra
    /\ prefFile = TextFile(ultra)
    /\ historyFile = historyAtOpen
    /\ result = argv.data.default_action

\* C6: in the HTTP variant, once the handler has handled GET /submit with
\* response r and mode m, or GET /cancel, the module-level result that
\* show_web_dialog returns and the entry point prints is r|||m, respectively
\* CANCELLED: the value the handler produced is the value the main flow reads.
C6_ResultHandedOver ==
    TerminatingHandled =>
        /\ g_result = h_result
        /\ lastReq.path = "/submit" =>
               g_result = Str(lastReq.response \o <<"|", "|", "|">>
                                  \o SubmittedMode)
        /\ lastReq.path = "/cancel" => g_result = Str(CANCELLED)

\* C7: in the HTTP variant, once a terminating request has been handled the
\* invocation is never at rest before the process has exited: the worker can
\* leave shutdown and finish, or the main flow's join can return.
C7_ShutdownCompletes ==
    TerminatingHandled => ENABLED (serve_forever(WebRequests) \/ JoinReturns)

\* C8: in the HTTP variant, GET / for a well-formed DecisionRequest ends with
\* the page body written; the handler raises no exception before that.
C8_PageServed ==
    (variant = "web" /\ lastReq = GetRoot /\ argv.wellformed) =>
        /\ handler_error = "none"
        /\ pageServed

\* C9: in the window variant, closing the window without submitting gives the
\* Cancelled outcome: standard output is exactly CANCELLED and the exit
\* status is 0.
C9_CloseIsCancel ==
    (variant = "window" /\ closedBy = "wm_close") =>
        /\ stdout = <<CANCELLED>>
        /\ exit_status = 0

\* C10: in either variant, an invocation with no argument or with an argument
\* that is not JSON has ended without creating a window, starting a listener
\* or opening a browser and without an outcome line on standard output; with
\* no argument its exit status is not 0.
C10_AbortsBeforeUI ==
    (variant # "none" /\ (~argv.present \/ ~argv.wellformed)) =>
        /\ phase = "closed"
        /\ ~windowCreated
        /\ ~listening
        /\ ~browserOpened
        /\ \A i \in 1..Len(stdout) : stdout[i] = ERROR_NO_INPUT
        /\ ~argv.present => exit_status > 0

\* C11: in every reachable state of either variant the active thinking mode is
\* one of quick, normal, deep, ultra: the mode of every submit is one of the
\* four, and so is every value the tool writes to the preference file, whatever
\* the file held at launch and whatever parameters the submit carries.
C11_ModeValid ==
    /\ [](thinking_mode \in ValidModes)
    /\ [](SubmitTaken => SubmittedMode \in ValidModes)
    /\ [][prefFile' # prefFile =>
            /\ prefFile'.exists
            /\ prefFile'.decodable
            /\ prefFile'.text \in ValidModes]_vars

\* a step that opens the window
OpenStep == phase # "open" /\ phase' = "open" /\ variant' = "window"

\* a step that is submit() in the window
SubmitStep == variant = "window" /\ phase = "open" /\ closedBy' = "submit"

\* C12: in the window variant the response field starts as default_action
\* (empty when that is empty), a pick of option i sets it to options[i-1],
\* and a submit sends the field's current value: default "proceed" untouched
\* is submitted as proceed, option 1 of ["A", "B"] as A.
C12_ResponseField ==
    /\ [][OpenStep => result' = argv'.data.default_action]_vars
    /\ [][(OpenStep /\ argv' = JsonArg(ReqDefault)) => result' = proceed]_vars
    /\ [][\A i \in 1..2 :
            PickOption(i) => result' = argv.data.options[i]]_vars
    /\ [][(PickOption(1) /\ argv.data.options = << <<"A">>, <<"B">> >>) =>
            result' = <<"A">>]_vars
    /\ [][SubmitStep =>
            /\ result' = result
            /\ stdout' = <<result \o <<"|", "|", "|">> \o thinking_mode>>]_vars

\* option 1 of ["A", "B"] has been picked, not typed over, and submitted
C12_Witness ==
    /\ variant = "window"
    /\ closedBy = "submit"
    /\ argv.data.options = << <<"A">>, <<"B">> >>
    /\ insertPos = 0
    /\ result = <<"A">>
    /\ stdout = << <<"A", "|", "|", "|", "n", "o", "r", "m", "a", "l">> >>

----------------------------------------------------------------------------
(* The context stored by add_entry, on contexts around the 100-character   *)
(* limit.                                                                  *)

\* invocations in the context specification
MaxContextRuns == 2

DigitChar(n) ==
    CASE n = 0 -> "0" [] n = 1 -> "1" [] n = 2 -> "2" [] n = 3 -> "3"
      [] n = 4 -> "4" [] n = 5 -> "5" [] n = 6 -> "6" [] n = 7 -> "7"
      [] n = 8 -> "8" [] OTHER -> "9"

\* a context of n characters, each telling its position
ContextOfLen(n) == [i \in 1..n |-> DigitChar((i + (i \div 10)) % 10)]

ContextLens ==
    {0, 1, ContextLimit - 1, ContextLimit, ContextLimit + 1, ContextLimit + 7}

ContextRequests == {Request(ContextOfLen(n), <<>>, proceed) : n \in ContextLens}

NextContext ==
    \/ \E r \in ContextRequests : LaunchWindow(JsonArg(r), MaxContextRuns)
    \/ \E m \in {quick, ultra} : SelectMode(m)
    \/ Submit
    \/ Cancel

SpecContext == Init /\ [][NextContext]_vars

\* C13: add_entry stores, for a context of more than 100 characters, its
\* first 100 characters followed by the marker "..."; a context of 100
\* characters or fewer, exactly 100 included, is stored as it is; the
\* response and the thinking mode are stored unchanged.
C13_ContextStored ==
    (variant = "window" /\ closedBy = "submit" /\ result # <<>>
        /\ result # CANCELLED) =>
        LET c == argv.data.decision_context
            e == history[1]
        IN  /\ load_history(historyFile)[1] = e
            /\ e.response = result
            /\ e.thinking_mode = thinking_mode
            /\ Len(c) <= 100 => e.context = c
            /\ Len(c) > 100 =>
                   /\ Len(e.context) = 103
                   /\ \A i \in 1..100 : e.context[i] = c[i]
                   /\ \A i \in 101..103 : e.context[i] = "."

\* a record has been stored for a context of 101 characters, after one for a
\* context of exactly 100
C13_Witness ==
    /\ closedBy = "submit"
    /\ Len(argv.data.decision_context) = 101
    /\ Len(history) = 2
    /\ Len(history[1].context) = 103
    /\ Len(history[2].context) = 100

\* a submit or a cancel has been taken in the running invocation
OutcomeTaken == SubmitTaken \/ CancelTaken

KeyStep == variant = "window" /\ phase = "open" /\ nKeys' = nKeys + 1

\* C15: in the window variant, typing a character into the response field
\* changes only the response: the thinking mode and the preference file stay
\* as they are, and the field then holds the text with the typed character
\* inserted, not an option's text.
C15_TypingChangesOnlyResponse ==
    [][KeyStep =>
        /\ thinking_mode' = thinking_mode
        /\ prefFile' = prefFile
        /\ \E k \in Keys :
               result' = EntryInsert(result, insertPos, selLast, k).text]_vars

====
